---- MODULE Spec2Model ----
(***************************************************************************)
(* Carpark simulation: the ParkingDatabase state holder of mocks.py, the   *)
(* sensor simulator and display manager of main.py with its wiring, and    *)
(* the wall clock.                                                         *)
(*                                                                         *)
(* Text is modelled as a sequence of string fragments (an f-string is the  *)
(* concatenation of its literal pieces and its formatted fields); numbers  *)
(* are formatted digit by digit.  Temperatures are integers in hundredths  *)
(* of a degree Celsius (20.0 is 2000).  The wall clock is seconds since    *)
(* local midnight.                                                         *)
(*                                                                         *)
(* Two threads run: the main thread, which runs the Tk event loop and every*)
(* handler in it to completion, and the daemon thread of _refresh_loop.    *)
(* A Tk call made by the daemon thread is executed by the main thread's    *)
(* event loop, that is, between two handlers; its reads of the database    *)
(* are plain Python and can fall anywhere, also inside a handler.          *)
(***************************************************************************)
EXTENDS Integers, Sequences, FiniteSets, TLC

VARIABLES
    total_spaces,    \* ParkingDatabase._total_spaces
    occupied,        \* ParkingDatabase._occupied
    temperature,     \* ParkingDatabase._temperature
    update_display,  \* ParkingDatabase._update_display ("None" or "refresh")
    activity_log,    \* ParkingDatabase._activity_log
    update_calls,    \* number of times the update callback has been invoked
    now,             \* the wall clock read by time.localtime()
    calls,           \* number of listener calls made on the database so far
    last,            \* the most recent listener call and the state it found
    prev,            \* the listener call before that
    returned,        \* the list a caller holds from get_activity_log()
    listeners,       \* CarSensorSimulator.listeners
    registered,      \* the objects passed to register_listener so far
    emitted,         \* the sensor events emitted so far
    dispatch,        \* the sensor event whose for loop is running, and its index
    delivered,       \* the listener notifications made so far, in order
    provider,        \* CarparkDisplayManager.provider ("None" or "database")
    window_exists,   \* whether the display's Toplevel window still exists
    shown,           \* the text of the display's three value labels
    ui,              \* where the main thread is: "idle" or inside reset_parking
    hb,              \* the daemon thread: its position and refresh()'s locals
    printed,         \* the exception refresh() last printed, "none" if none
    escaped,         \* whether an exception has left refresh()
    last_update,     \* the latest values handed to display.update
    version,         \* number of changes made to occupied and temperature
    held             \* the (available, temperature) pairs held between calls

vars == <<total_spaces, occupied, temperature, update_display, activity_log,
          update_calls, now, calls, last, prev>>

\* the caller's side of get_activity_log
log_vars == <<returned>>

\* CarSensorSimulator
sensor_vars == <<listeners, registered, emitted, dispatch, delivered>>

\* CarparkDisplayManager, CarparkInfoDisplay and the two threads
display_vars == <<provider, window_exists, shown, ui, hb, printed, escaped,
                  last_update, version, held>>

all_vars == <<vars, log_vars, sensor_vars, display_vars>>

----------------------------------------------------------------------------
(* Bounds of the model *)

\* largest capacity explored; the program's own capacity is 100
MaxCapacity == 2
\* number of distinct non-empty license plates typed into the simulator
NumPlates == 2
\* number of listener calls in one run
MaxCalls == 3
\* number of seconds the clock advances in one run
MaxTicks == 1
\* number of listeners registered with the sensor simulator
MaxListeners == 2
\* number of sensor events the simulator emits in one run
MaxEvents == 2

\* listener calls made while the display is on screen
MaxDisplayCalls == 1

PlateNames == <<"ABC123", "XYZ999", "NOTPARKED", "QRS456", "TUV789">>

\* what the License Plate entry can hold: nothing, or a plate
Plates == {""} \cup {PlateNames[i] : i \in 1..NumPlates}

\* temperatures the simulator sends, in hundredths of a degree
Temps == {-500, 2004}

----------------------------------------------------------------------------
(* Formatting *)

Digits == <<"0", "1", "2", "3", "4", "5", "6", "7", "8", "9">>

RECURSIVE Decimal(_)
\* the decimal digits of a natural number
Decimal(n) ==
    IF n < 10 THEN <<Digits[n + 1]>>
    ELSE Decimal(n \div 10) \o <<Digits[(n % 10) + 1]>>

\* f"{n}" for an int
FormatInt(n) == IF n < 0 THEN <<"-">> \o Decimal(-n) ELSE Decimal(n)

\* f"{temp:.1f}" for a temperature in hundredths (none of Temps is a tie)
FormatFixed1(temp) ==
    LET mag    == IF temp < 0 THEN -temp ELSE temp
        tenths == (mag + 5) \div 10
    IN  (IF temp < 0 THEN <<"-">> ELSE <<>>)
        \o Decimal(tenths \div 10) \o <<".", Digits[(tenths % 10) + 1]>>

\* two digits, zero padded (%H, %M, %S)
TwoDigits(n) == <<Digits[(n \div 10) + 1], Digits[(n % 10) + 1]>>

\* time.strftime('%H:%M:%S', t), t in seconds counted from a local midnight
Strftime(t) ==
    TwoDigits((t \div 3600) % 24) \o <<":">> \o TwoDigits((t \div 60) % 60)
    \o <<":">> \o TwoDigits(t % 60)

----------------------------------------------------------------------------
(* ParkingDatabase *)

\* the available_spaces property, for a given occupied set
available_spaces(occ) == total_spaces - Cardinality(occ)

EnteredMessage(plate, occ) ==
    <<"Car ", plate, " entered. Available spaces: ">>
    \o FormatInt(available_spaces(occ))

FullMessage(plate) ==
    <<"Car ", plate, " attempted to enter but parking is full.">>

ExitedMessage(plate, occ) ==
    <<"Car ", plate, " exited. Available spaces: ">>
    \o FormatInt(available_spaces(occ))

NotFoundMessage(plate) ==
    <<"Car ", plate, " attempted to exit but was not found.">>

TemperatureMessage(temp) ==
    <<"Temperature updated to ">> \o FormatFixed1(temp) \o <<"°C">>

ResetMessage ==
    <<"Parking system reset. All spaces cleared and temperature set to 20.0°C.">>

\* the entry log_activity builds at time t: f"[{timestamp}] {message}"
LogEntry(t, message) == <<"[">> \o Strftime(t) \o <<"] ">> \o message

\* a log that drops an entry equal to the one before it
log_activity_dedup(message) ==
    activity_log' =
        IF /\ activity_log # <<>>
           /\ activity_log[Len(activity_log)] = LogEntry(now, message)
        THEN activity_log
        ELSE Append(activity_log, LogEntry(now, message))

\* log_activity(message): append one timestamped entry
log_activity(message) ==
    activity_log' = Append(activity_log, LogEntry(now, message))

\* a trigger that calls the callback without looking whether one is set
trigger_update_unguarded == update_calls' = update_calls + 1

\* trigger_update(): invoke the callback when one is set
trigger_update ==
    update_calls' = IF update_display # "None" THEN update_calls + 1
                    ELSE update_calls

\* what a listener call finds: its name and arguments, and the state before it
Observe(op, plate, temp) ==
    /\ calls < MaxCalls
    /\ calls' = calls + 1
    /\ prev' = last
    /\ last' = [op |-> op, plate |-> plate, temp |-> temp,
                occupied |-> occupied, temperature |-> temperature,
                update_display |-> update_display,
                update_calls |-> update_calls,
                activity_log |-> activity_log, now |-> now]

\* an off-by-one capacity test
CanEnter_off_by_one(plate) ==
    plate # "" /\ Cardinality(occupied) <= total_spaces

\* a test that forgets the capacity
CanEnter_ignores_capacity(plate) == plate # ""

\* a test that forgets the empty plate
CanEnter_ignores_empty(plate) == Cardinality(occupied) < total_spaces

\* a test that turns away a plate that is already parked
CanEnter_rejects_parked(plate) ==
    plate # "" /\ plate \notin occupied /\ Cardinality(occupied) < total_spaces

\* the condition of incoming_car's if
CanEnter(plate) == plate # "" /\ Cardinality(occupied) < total_spaces

\* self._occupied.add(plate)
Add(occ, plate) == occ \cup {plate}

\* an entry that reports the spaces available before the car was added
incoming_car_logs_before(plate) ==
    /\ Observe("incoming_car", plate, 0)
    /\ IF CanEnter(plate)
       THEN /\ occupied' = Add(occupied, plate)
            /\ log_activity(EnteredMessage(plate, occupied))
            /\ trigger_update
       ELSE /\ log_activity(FullMessage(plate))
            /\ UNCHANGED <<occupied, update_calls>>
    /\ UNCHANGED <<total_spaces, temperature, update_display, now>>

incoming_car(plate) ==
    /\ Observe("incoming_car", plate, 0)
    /\ IF CanEnter(plate)
       THEN /\ occupied' = Add(occupied, plate)
            /\ log_activity(EnteredMessage(plate, occupied'))
            /\ trigger_update
       ELSE /\ log_activity(FullMessage(plate))
            /\ UNCHANGED <<occupied, update_calls>>
    /\ UNCHANGED <<total_spaces, temperature, update_display, now>>

\* the condition of outgoing_car's if
IsParked(plate) == plate \in occupied

\* a removal that does nothing
Remove_nothing(occ, plate) == occ

\* a removal that empties the set
Remove_everything(occ, plate) == {}

\* self._occupied.remove(plate)
Remove(occ, plate) == occ \ {plate}

outgoing_car(plate) ==
    /\ Observe("outgoing_car", plate, 0)
    /\ IF IsParked(plate)
       THEN /\ occupied' = Remove(occupied, plate)
            /\ log_activity(ExitedMessage(plate, occupied'))
            /\ trigger_update
       ELSE /\ log_activity(NotFoundMessage(plate))
            /\ UNCHANGED <<occupied, update_calls>>
    /\ UNCHANGED <<total_spaces, temperature, update_display, now>>

\* a reading that is dropped when it is below freezing
temperature_reading_rejects_negative(temp) ==
    /\ Observe("temperature_reading", "", temp)
    /\ temperature' = IF temp < 0 THEN temperature ELSE temp
    /\ log_activity(TemperatureMessage(temp))
    /\ trigger_update
    /\ UNCHANGED <<total_spaces, occupied, update_display, now>>

temperature_reading(temp) ==
    /\ Observe("temperature_reading", "", temp)
    /\ temperature' = temp
    /\ log_activity(TemperatureMessage(temp))
    /\ trigger_update
    /\ UNCHANGED <<total_spaces, occupied, update_display, now>>

\* a clear that leaves the set as it was
Clear_nothing(occ) == occ

\* self._occupied.clear()
Clear(occ) == {}

reset_parking ==
    /\ Observe("reset_parking", "", 0)
    /\ occupied' = Clear(occupied)
    /\ temperature' = 2000
    /\ log_activity(ResetMessage)
    /\ trigger_update
    /\ UNCHANGED <<total_spaces, update_display, now>>

----------------------------------------------------------------------------
(* main.py wiring, and the clock *)

\* database._update_display = display.refresh
SetUpdateDisplay ==
    /\ update_display = "None"
    /\ update_display' = "refresh"
    /\ UNCHANGED <<total_spaces, occupied, temperature, activity_log,
                   update_calls, now, calls, last, prev>>

\* one second passes
Tick ==
    /\ now < 86399 + MaxTicks
    /\ now' = now + 1
    /\ UNCHANGED <<total_spaces, occupied, temperature, update_display,
                   activity_log, update_calls, calls, last, prev>>

NoCall == [op |-> "none", plate |-> "", temp |-> 0,
           occupied |-> {}, temperature |-> 2000,
           update_display |-> "None", update_calls |-> 0,
           activity_log |-> <<>>, now |-> 0]

\* CarparkInfoDisplay.DISPLAY_INIT (three en dashes, written by code point)
DISPLAY_INIT == <<"\\u2013 \\u2013 \\u2013">>

\* the daemon thread at the top of its loop, refresh()'s locals unset
Looping == [pc |-> "loop", bays |-> <<>>, temperature |-> <<>>, time |-> <<>>,
            clock |-> 0, v_first |-> 0, v_last |-> 0]

\* display.update has not been called yet
NoUpdate == [by |-> "none", bays |-> <<>>, temperature |-> <<>>,
             time |-> <<>>, clock |-> 0, v_first |-> 0, v_last |-> 0,
             repeat |-> FALSE]

\* no list handed out yet
NoList == [alias |-> FALSE, items |-> <<>>, held |-> FALSE, mutated |-> FALSE]

\* no sensor event is being dispatched
Idle == [event |-> "none", plate |-> "", temp |-> 0, i |-> 0]

Init ==
    /\ total_spaces \in 1..MaxCapacity
    /\ occupied = {}
    /\ temperature = 2000
    /\ update_display = "None"
    /\ activity_log = <<>>
    /\ update_calls = 0
    /\ now = 86399
    /\ calls = 0
    /\ last = NoCall
    /\ prev = NoCall
    /\ returned = NoList
    /\ listeners = <<>>
    /\ registered = <<>>
    /\ emitted = <<>>
    /\ dispatch = Idle
    /\ delivered = <<>>
    /\ provider = "None"
    /\ window_exists = TRUE
    /\ shown = [bays |-> DISPLAY_INIT, temperature |-> DISPLAY_INIT,
                time |-> DISPLAY_INIT]
    /\ ui = "idle"
    /\ hb = Looping
    /\ printed = "none"
    /\ escaped = FALSE
    /\ last_update = NoUpdate
    /\ version = 0
    /\ held = {<<available_spaces({}), 2000>>}

(* The database on its own: calls made on it directly, in any order *)

Next ==
    \/ (\E plate \in Plates : incoming_car(plate))
           /\ UNCHANGED <<log_vars, sensor_vars, display_vars>>
    \/ (\E plate \in Plates : outgoing_car(plate))
           /\ UNCHANGED <<log_vars, sensor_vars, display_vars>>
    \/ (\E temp \in Temps : temperature_reading(temp))
           /\ UNCHANGED <<log_vars, sensor_vars, display_vars>>
    \/ reset_parking /\ UNCHANGED <<log_vars, sensor_vars, display_vars>>
    \/ SetUpdateDisplay /\ UNCHANGED <<log_vars, sensor_vars, display_vars>>
    \/ Tick /\ UNCHANGED <<log_vars, sensor_vars, display_vars>>

Spec == Init /\ [][Next]_all_vars

----------------------------------------------------------------------------
(* get_activity_log and a caller that mutates the list it was given *)

\* plates and temperatures tried while a caller holds the log
LogPlates == {"", PlateNames[1]}
LogTemps == {-500}

\* a getter that hands out the log itself
get_activity_log_no_copy ==
    /\ ~returned.held \/ returned.mutated
    /\ returned' = [alias |-> TRUE, items |-> <<>>, held |-> TRUE,
                    mutated |-> FALSE]
    /\ UNCHANGED vars

\* get_activity_log(): return self._activity_log.copy()
get_activity_log ==
    /\ ~returned.held \/ returned.mutated
    /\ returned' = [alias |-> FALSE, items |-> activity_log, held |-> TRUE,
                    mutated |-> FALSE]
    /\ UNCHANGED vars

\* the contents of the list the caller holds
ReturnedItems == IF returned.alias THEN activity_log ELSE returned.items

\* list.clear(), list.pop() and list.append(x) on a list
ListMutation(items, how) ==
    CASE how = "clear"  -> <<>>
      [] how = "pop"    -> SubSeq(items, 1, Len(items) - 1)
      [] how = "append" -> Append(items, <<"tampered">>)

\* the caller changes the list it holds
CallerMutates(how) ==
    /\ returned.held /\ ~returned.mutated
    /\ how = "pop" => ReturnedItems # <<>>
    /\ IF returned.alias
       THEN /\ activity_log' = ListMutation(activity_log, how)
            /\ returned' = [returned EXCEPT !.mutated = TRUE]
       ELSE /\ returned' = [returned EXCEPT
                               !.items = ListMutation(@, how),
                               !.mutated = TRUE]
            /\ UNCHANGED activity_log
    /\ UNCHANGED <<total_spaces, occupied, temperature, update_display,
                   update_calls, now, calls, last, prev>>

LogNext ==
    \/ (\E plate \in LogPlates : incoming_car(plate))
           /\ UNCHANGED <<log_vars, sensor_vars, display_vars>>
    \/ (\E plate \in LogPlates : outgoing_car(plate))
           /\ UNCHANGED <<log_vars, sensor_vars, display_vars>>
    \/ (\E temp \in LogTemps : temperature_reading(temp))
           /\ UNCHANGED <<log_vars, sensor_vars, display_vars>>
    \/ reset_parking /\ UNCHANGED <<log_vars, sensor_vars, display_vars>>
    \/ get_activity_log /\ UNCHANGED <<sensor_vars, display_vars>>
    \/ (\E how \in {"clear", "pop", "append"} : CallerMutates(how))
           /\ UNCHANGED <<sensor_vars, display_vars>>

SpecLog == Init /\ [][LogNext]_all_vars

----------------------------------------------------------------------------
(* CarSensorSimulator: registration and the event handlers' for loops *)

\* objects offered to register_listener: the ParkingDatabase, a sensor
\* listener that has no reset_parking method, and an object that is no
\* sensor listener at all
ListenerObjects == {"database", "monitor", "widget"}

\* isinstance(listener, CarparkSensorListener)
IsSensorListener(obj) == obj \in {"database", "monitor"}

\* hasattr(listener, 'reset_parking')
HasResetParking(obj) == obj = "database"

\* what the License Plate and Temperature entries hold when an event fires
SensorPlates == {"", PlateNames[1]}
TempEntries == {"-5.0", "abc"}

\* float(text) for the entries that parse
Float == ("-5.0" :> -500) @@ ("20.04" :> 2004)

\* a registration that ignores a listener it already holds
register_listener_once(obj) ==
    /\ dispatch = Idle
    /\ Len(registered) < MaxListeners
    /\ registered' = Append(registered, obj)
    /\ listeners' =
           IF /\ IsSensorListener(obj)
              /\ \A i \in 1..Len(listeners) : listeners[i] # obj
           THEN Append(listeners, obj)
           ELSE listeners
    /\ UNCHANGED <<emitted, dispatch, delivered>>

register_listener(obj) ==
    /\ dispatch = Idle
    /\ Len(registered) < MaxListeners
    /\ registered' = Append(registered, obj)
    /\ listeners' = IF IsSensorListener(obj) THEN Append(listeners, obj)
                    ELSE listeners
    /\ UNCHANGED <<emitted, dispatch, delivered>>

\* how many entries of the listener list are the database
DatabaseCount ==
    Cardinality({i \in 1..Len(listeners) : listeners[i] = "database"})

\* an event handler is entered: its for loop starts at the first listener
StartDispatch(event, plate, temp) ==
    /\ dispatch = Idle
    /\ Len(emitted) < MaxEvents
    /\ calls + DatabaseCount <= MaxCalls
    /\ emitted' = Append(emitted,
           [event |-> event, plate |-> plate, temp |-> temp,
            registered |-> SelectSeq(registered, IsSensorListener)])
    /\ dispatch' = IF listeners = <<>> THEN Idle
                   ELSE [event |-> event, plate |-> plate, temp |-> temp,
                         i |-> 1]
    /\ UNCHANGED <<listeners, registered, delivered>>

\* _car_in
car_in == \E plate \in SensorPlates : StartDispatch("incoming_car", plate, 0)

\* _car_out
car_out == \E plate \in SensorPlates : StartDispatch("outgoing_car", plate, 0)

\* _on_temp_change: a text that does not parse is dropped (ValueError)
on_temp_change ==
    \E text \in TempEntries :
        IF text \in DOMAIN Float
        THEN StartDispatch("temperature_reading", "", Float[text])
        ELSE dispatch = Idle /\ UNCHANGED sensor_vars

\* _reset
reset == StartDispatch("reset_parking", "", 0)

\* the listener method an event calls, on the database
DatabaseCall(ev) ==
    IF ev.event = "incoming_car" THEN incoming_car(ev.plate)
    ELSE IF ev.event = "outgoing_car" THEN outgoing_car(ev.plate)
    ELSE IF ev.event = "temperature_reading" THEN temperature_reading(ev.temp)
    ELSE reset_parking

\* one iteration of the running for loop
NotifyNext ==
    /\ dispatch # Idle
    /\ LET obj    == listeners[dispatch.i]
           called == dispatch.event # "reset_parking" \/ HasResetParking(obj)
       IN  /\ IF called /\ obj = "database"
              THEN DatabaseCall(dispatch)
              ELSE UNCHANGED vars
           /\ delivered' =
                  IF called
                  THEN Append(delivered,
                           [id |-> Len(emitted), event |-> dispatch.event,
                            listener |-> obj, index |-> dispatch.i])
                  ELSE delivered
    /\ dispatch' = IF dispatch.i = Len(listeners) THEN Idle
                   ELSE [dispatch EXCEPT !.i = @ + 1]
    /\ UNCHANGED <<listeners, registered, emitted>>

SensorNext ==
    \/ (\E obj \in ListenerObjects : register_listener(obj))
           /\ UNCHANGED <<vars, log_vars, display_vars>>
    \/ car_in /\ UNCHANGED <<vars, log_vars, display_vars>>
    \/ car_out /\ UNCHANGED <<vars, log_vars, display_vars>>
    \/ on_temp_change /\ UNCHANGED <<vars, log_vars, display_vars>>
    \/ reset /\ UNCHANGED <<vars, log_vars, display_vars>>
    \/ NotifyNext /\ UNCHANGED <<log_vars, display_vars>>

SpecSensor == Init /\ [][SensorNext]_all_vars

----------------------------------------------------------------------------
(* CarparkDisplayManager and CarparkInfoDisplay, on the two threads *)

\* plates and temperatures tried while the display is watched
DisplayPlates == {PlateNames[1]}
DisplayTemps == {-500}

\* f'{n:03d}'
FormatBays(n) ==
    LET digits == Decimal(IF n < 0 THEN -n ELSE n)
        width  == IF n < 0 THEN 2 ELSE 3
        zeros  == [i \in 1..(width - Len(digits)) |-> "0"]
    IN  (IF n < 0 THEN <<"-">> ELSE <<>>) \o zeros \o digits

\* f'{temp:.1f}' followed by the degree-Celsius sign U+2103
FormatTemperature(temp) == FormatFixed1(temp) \o <<"\\u2103">>

\* a dictionary whose 'Available Bays' entry carries the time as well
Values_stamps_bays(bays, temp, t) ==
    [bays |-> FormatBays(bays) \o Strftime(t),
     temperature |-> FormatTemperature(temp), time |-> Strftime(t)]

\* the dictionary refresh() builds from what it read
Values(bays, temp, t) ==
    [bays |-> FormatBays(bays), temperature |-> FormatTemperature(temp),
     time |-> Strftime(t)]

\* a Tk call of the daemon thread is served by the main thread's event loop
TkServes == ui = "idle"

\* an except clause that catches Tk errors only
Caught_TclError_only(exc) == exc = "TclError"

\* an except clause that catches attribute errors only
Caught_AttributeError_only(exc) == exc = "AttributeError"

\* except Exception: every exception raised in refresh()'s try is caught
Caught(exc) == exc \in {"AttributeError", "TclError"}

\* an exception raised inside refresh()'s try block: printed, or let out
Raise(exc) ==
    IF Caught(exc)
    THEN printed' = exc /\ UNCHANGED escaped
    ELSE escaped' = TRUE /\ UNCHANGED printed

\* self.display.update(values) is called; repeat tells that the reads made
\* for this update and those made for the update before it all saw the
\* same occupied and temperature, with no change in between
HandOver(by, values, clock, v_first, v_last) ==
    /\ last_update' = [by |-> by, bays |-> values.bays,
                       temperature |-> values.temperature,
                       time |-> values.time, clock |-> clock,
                       v_first |-> v_first, v_last |-> v_last,
                       repeat |-> /\ last_update.by # "none"
                                  /\ last_update.v_first = last_update.v_last
                                  /\ v_first = v_last
                                  /\ last_update.v_last = v_first]

\* refresh() run by the main thread, on the database state occ, temp at
\* version v: nothing can come between its steps
Refresh(occ, temp, v) ==
    IF ~window_exists
    THEN UNCHANGED <<shown, printed, escaped, last_update>>
    ELSE IF provider = "None"
    THEN Raise("AttributeError")
         /\ UNCHANGED <<shown, last_update>>
    ELSE /\ HandOver("main", Values(available_spaces(occ), temp, now),
                     now, v, v)
         /\ shown' = Values(available_spaces(occ), temp, now)
         /\ UNCHANGED <<printed, escaped>>

\* the callback of trigger_update, when it was invoked
CallbackRefresh ==
    IF update_calls' # update_calls
    THEN Refresh(occupied', temperature', version')
    ELSE UNCHANGED <<shown, printed, escaped, last_update>>

\* the version after a step of a listener call
Bump ==
    version' = IF occupied' # occupied \/ temperature' # temperature
               THEN version + 1 ELSE version

\* a listener call made by a handler of the main thread, start to end
MainCall(call) ==
    /\ ui = "idle"
    /\ call
    /\ Bump
    /\ CallbackRefresh
    /\ held' = held \cup {<<available_spaces(occupied'), temperature'>>}
    /\ UNCHANGED <<provider, window_exists, ui, hb>>

\* reset_parking up to self._occupied.clear()
reset_parking_clear ==
    /\ ui = "idle"
    /\ Observe("reset_parking", "", 0)
    /\ occupied' = Clear(occupied)
    /\ UNCHANGED <<total_spaces, temperature, update_display, activity_log,
                   update_calls, now>>
    /\ Bump
    /\ ui' = "reset_parking"
    /\ UNCHANGED <<provider, window_exists, shown, hb, printed, escaped,
                   last_update, held>>

\* reset_parking from self._temperature = 20.0 to its end
reset_parking_finish ==
    /\ ui = "reset_parking"
    /\ temperature' = 2000
    /\ log_activity(ResetMessage)
    /\ trigger_update
    /\ UNCHANGED <<total_spaces, occupied, update_display, now, calls,
                   last, prev>>
    /\ Bump
    /\ CallbackRefresh
    /\ held' = held \cup {<<available_spaces(occupied'), temperature'>>}
    /\ ui' = "idle"
    /\ UNCHANGED <<provider, window_exists, hb>>

\* refresh() called directly from the main thread
refresh ==
    /\ ui = "idle"
    /\ Refresh(occupied, temperature, version)
    /\ UNCHANGED <<provider, window_exists, ui, hb, version, held>>
    /\ UNCHANGED vars

\* objects assigned to data_provider: the database, and one that is no
\* CarparkDataProvider
ProviderObjects == {"database", "widget"}

\* isinstance(provider, CarparkDataProvider)
IsDataProvider(obj) == obj = "database"

\* the data_provider setter
SetDataProvider(obj) ==
    /\ ui = "idle"
    /\ provider' = IF IsDataProvider(obj) THEN obj ELSE provider
    /\ UNCHANGED <<window_exists, shown, ui, hb, printed, escaped,
                   last_update, version, held>>
    /\ UNCHANGED vars

\* database._update_display = display.refresh, after display.data_provider
\* has been set
WireUpdateDisplay ==
    /\ ui = "idle"
    /\ provider # "None"
    /\ SetUpdateDisplay
    /\ UNCHANGED display_vars

\* the user closes the display window
CloseWindow ==
    /\ ui = "idle"
    /\ window_exists
    /\ window_exists' = FALSE
    /\ UNCHANGED <<provider, shown, ui, hb, printed, escaped, last_update,
                   version, held>>
    /\ UNCHANGED vars

(* The daemon thread: _refresh_loop, and refresh() and display.update as   *)
(* it runs them, one step per Tk call and per read of the database         *)

\* the daemon thread is inside refresh() or display.update
HbFrame == UNCHANGED <<provider, window_exists, ui, version, held>>

\* a loop that sleeps and never calls refresh()
hb_loop_only_sleeps ==
    /\ hb.pc = "loop"
    /\ provider # "None" => TkServes
    /\ hb' = hb
    /\ UNCHANGED <<shown, printed, escaped, last_update>>
    /\ HbFrame

\* while True: time.sleep(1); if self.provider and winfo_exists(): ...
hb_loop ==
    /\ hb.pc = "loop"
    /\ provider # "None" => TkServes
    /\ hb' = IF provider # "None" /\ window_exists
             THEN [hb EXCEPT !.pc = "refresh"]
             ELSE hb
    /\ UNCHANGED <<shown, printed, escaped, last_update>>
    /\ HbFrame

\* refresh(): if not self.display.window.winfo_exists(): return
hb_refresh_check ==
    /\ hb.pc = "refresh"
    /\ TkServes
    /\ hb' = IF window_exists THEN [hb EXCEPT !.pc = "read_bays"]
             ELSE Looping
    /\ UNCHANGED <<shown, printed, escaped, last_update>>
    /\ HbFrame

\* refresh(): current_time = self.provider.current_time, and the
\* 'Available Bays' entry of values
hb_read_bays ==
    /\ hb.pc = "read_bays"
    /\ IF provider = "None"
       THEN /\ Raise("AttributeError")
            /\ hb' = IF Caught("AttributeError") THEN Looping
                     ELSE [Looping EXCEPT !.pc = "dead"]
       ELSE /\ hb' = [hb EXCEPT !.pc = "read_temperature",
                                !.bays = FormatBays(available_spaces(occupied)),
                                !.time = Strftime(now),
                                !.clock = now,
                                !.v_first = version]
            /\ UNCHANGED <<printed, escaped>>
    /\ UNCHANGED <<shown, last_update>>
    /\ HbFrame

\* refresh(): the 'Temperature' and 'Time' entries of values
hb_read_temperature ==
    /\ hb.pc = "read_temperature"
    /\ hb' = [hb EXCEPT !.pc = "update",
                        !.temperature = FormatTemperature(temperature),
                        !.v_last = version]
    /\ UNCHANGED <<shown, printed, escaped, last_update>>
    /\ HbFrame

\* refresh(): self.display.update(values), up to update's winfo_exists()
hb_update ==
    /\ hb.pc = "update"
    /\ TkServes
    /\ HandOver("daemon", hb, hb.clock, hb.v_first, hb.v_last)
    /\ hb' = IF window_exists THEN [hb EXCEPT !.pc = "label_0"] ELSE Looping
    /\ UNCHANGED <<shown, printed, escaped>>
    /\ HbFrame

\* the value label written for label_0, label_1, label_2
Field(i) == <<"bays", "temperature", "time">>[i + 1]

\* display.update: one pass of its loop for a label_i key (cget, then
\* config); after the last the update_idletasks() and the return
hb_label(i) ==
    /\ hb.pc = <<"label_0", "label_1", "label_2">>[i + 1]
    /\ TkServes
    /\ IF window_exists
       THEN /\ shown' = [shown EXCEPT ![Field(i)] = hb[Field(i)]]
            /\ hb' = IF i = 2 THEN Looping
                     ELSE [hb EXCEPT !.pc = <<"label_1", "label_2">>[i + 1]]
            /\ UNCHANGED <<printed, escaped>>
       ELSE /\ Raise("TclError")
            /\ hb' = IF Caught("TclError") THEN Looping
                     ELSE [Looping EXCEPT !.pc = "dead"]
            /\ UNCHANGED shown
    /\ UNCHANGED last_update
    /\ HbFrame

\* a step of the daemon thread
Heartbeat ==
    /\ \/ hb_loop
       \/ hb_refresh_check
       \/ hb_read_bays
       \/ hb_read_temperature
       \/ hb_update
       \/ \E i \in 0..2 : hb_label(i)
    /\ UNCHANGED <<vars, log_vars, sensor_vars>>

\* a listener call may still be made while the display is on screen
MoreCalls == calls < MaxDisplayCalls

DisplayNext ==
    \/ /\ MoreCalls
       /\ \E plate \in DisplayPlates : MainCall(incoming_car(plate))
       /\ UNCHANGED <<log_vars, sensor_vars>>
    \/ /\ MoreCalls
       /\ \E plate \in DisplayPlates : MainCall(outgoing_car(plate))
       /\ UNCHANGED <<log_vars, sensor_vars>>
    \/ /\ MoreCalls
       /\ \E temp \in DisplayTemps : MainCall(temperature_reading(temp))
       /\ UNCHANGED <<log_vars, sensor_vars>>
    \/ MoreCalls /\ reset_parking_clear /\ UNCHANGED <<log_vars, sensor_vars>>
    \/ reset_parking_finish /\ UNCHANGED <<log_vars, sensor_vars>>
    \/ refresh /\ UNCHANGED <<log_vars, sensor_vars>>
    \/ (\E obj \in ProviderObjects : SetDataProvider(obj))
           /\ UNCHANGED <<log_vars, sensor_vars>>
    \/ WireUpdateDisplay /\ UNCHANGED <<log_vars, sensor_vars>>
    \/ CloseWindow /\ UNCHANGED <<log_vars, sensor_vars>>
    \/ Tick /\ UNCHANGED <<log_vars, sensor_vars, display_vars>>
    \/ hb_loop /\ UNCHANGED <<vars, log_vars, sensor_vars>>
    \/ hb_refresh_check /\ UNCHANGED <<vars, log_vars, sensor_vars>>
    \/ hb_read_bays /\ UNCHANGED <<vars, log_vars, sensor_vars>>
    \/ hb_read_temperature /\ UNCHANGED <<vars, log_vars, sensor_vars>>
    \/ hb_update /\ UNCHANGED <<vars, log_vars, sensor_vars>>
    \/ (\E i \in 0..2 : hb_label(i)) /\ UNCHANGED <<vars, log_vars, sensor_vars>>

\* the display is started on a database whose capacity is never reached
InitDisplay == Init /\ total_spaces = MaxCapacity

SpecDisplay == InitDisplay /\ [][DisplayNext]_all_vars

----------------------------------------------------------------------------
(* The daemon thread against the listener calls alone: the data source is  *)
(* attached, the window stays open, _update_display is wired or left unset *)

\* plates and temperatures of the listener calls
HeartbeatPlates == {PlateNames[1]}
HeartbeatTemps == {-500}

\* reset_parking's second half has to run
Finish == reset_parking_finish /\ UNCHANGED <<log_vars, sensor_vars>>

HeartbeatNext ==
    \/ SetDataProvider("database") /\ UNCHANGED <<log_vars, sensor_vars>>
    \/ WireUpdateDisplay /\ UNCHANGED <<log_vars, sensor_vars>>
    \/ (\E plate \in HeartbeatPlates : MainCall(incoming_car(plate)))
           /\ UNCHANGED <<log_vars, sensor_vars>>
    \/ (\E temp \in HeartbeatTemps : MainCall(temperature_reading(temp)))
           /\ UNCHANGED <<log_vars, sensor_vars>>
    \/ reset_parking_clear /\ UNCHANGED <<log_vars, sensor_vars>>
    \/ Finish
    \/ Heartbeat

SpecHeartbeat == InitDisplay /\ [][HeartbeatNext]_all_vars

\* the scheduler lets the daemon thread run, and the main thread finishes
\* the handler it is in
SpecHeartbeatFair ==
    /\ SpecHeartbeat
    /\ WF_all_vars(Heartbeat)
    /\ WF_all_vars(Finish)

----------------------------------------------------------------------------
(* Properties *)

\* the entry most recently appended to the activity log
LastEntry == activity_log[Len(activity_log)]

\* the most recent call was op
Called(op) == last.op = op

\* the occupied set was at capacity when the most recent call was made
WasFull == Cardinality(last.occupied) = total_spaces

\* the most recent call left occupancy and temperature as it found them
StateUnchanged ==
    /\ occupied = last.occupied
    /\ available_spaces(occupied) = available_spaces(last.occupied)
    /\ temperature = last.temperature

\* the most recent call took its success path, judged by the state it found
Succeeded ==
    \/ Called("incoming_car") /\ last.plate # "" /\ ~WasFull
    \/ Called("outgoing_car") /\ last.plate \in last.occupied
    \/ Called("temperature_reading")
    \/ Called("reset_parking")

\* C1: in every reachable state the number of occupied plates is at most
\* the capacity, so available_spaces is never negative.
C1_WithinCapacity ==
    /\ Cardinality(occupied) <= total_spaces
    /\ available_spaces(occupied) >= 0

\* a car with a fresh plate has just tried to enter a full carpark
C1_Witness ==
    /\ Called("incoming_car")
    /\ WasFull
    /\ last.plate # ""
    /\ last.plate \notin last.occupied

\* C2 (as claimed): incoming_car(p) followed immediately by outgoing_car(p)
\* leaves available_spaces at its value before the two calls, for every p.
C2_RoundTripAnyPlate ==
    (/\ calls >= 2
     /\ prev.op = "incoming_car"
     /\ Called("outgoing_car")
     /\ prev.plate = last.plate)
    => available_spaces(occupied) = available_spaces(prev.occupied)

\* C2 (amended): incoming_car(p) followed immediately by outgoing_car(p)
\* leaves available_spaces at its value before the two calls, for every
\* plate p that was not parked before the two calls.
C2_RoundTripFreshPlate ==
    (/\ calls >= 2
     /\ prev.op = "incoming_car"
     /\ Called("outgoing_car")
     /\ prev.plate = last.plate
     /\ prev.plate \notin prev.occupied)
    => available_spaces(occupied) = available_spaces(prev.occupied)

\* a fresh plate entered a carpark that already held a car, and left again
C2_Witness ==
    /\ calls >= 2
    /\ prev.op = "incoming_car"
    /\ Called("outgoing_car")
    /\ prev.plate = last.plate
    /\ prev.plate # ""
    /\ prev.plate \notin prev.occupied
    /\ prev.occupied # {}
    /\ last.occupied = prev.occupied \cup {prev.plate}

\* C3: reset_parking leaves the occupied set empty (available_spaces equal
\* to the capacity) and the temperature at 20.0, whatever they were before.
C3_ResetRestoresDefaults ==
    Called("reset_parking") =>
        /\ occupied = {}
        /\ available_spaces(occupied) = total_spaces
        /\ temperature = 2000

\* a reset of a carpark that held a car at a temperature other than 20.0
C3_Witness ==
    /\ Called("reset_parking")
    /\ last.occupied # {}
    /\ last.temperature # 2000

\* C4: every call to incoming_car, outgoing_car, temperature_reading or
\* reset_parking, accepted or rejected, makes the activity log exactly one
\* entry longer.
C4_OneEntryPerCall ==
    /\ ~Called("none") => Len(activity_log) = Len(last.activity_log) + 1
    /\ Len(activity_log) = calls

\* a rejected exit right after a rejected entry, each with its own entry
C4_Witness ==
    /\ prev.op = "incoming_car"
    /\ Cardinality(prev.occupied) = total_spaces
    /\ Called("outgoing_car")
    /\ last.plate \notin last.occupied
    /\ Len(activity_log) = 3

\* C5: a successful call invokes the update callback exactly once when one
\* is wired; a rejected call never invokes it; nothing is invoked when no
\* callback is wired.
C5_SignalOnSuccessOnly ==
    ~Called("none") =>
        update_calls = last.update_calls
            + (IF Succeeded /\ last.update_display # "None" THEN 1 ELSE 0)

\* with the callback wired, a car entered (one signal) and the next car
\* found the carpark full (no signal)
C5_Witness ==
    /\ prev.op = "incoming_car"
    /\ prev.update_display = "refresh"
    /\ Called("incoming_car")
    /\ WasFull
    /\ last.update_calls = prev.update_calls + 1
    /\ update_calls = last.update_calls

\* C6: with a non-empty plate that is not parked and fewer than capacity
\* plates occupied, incoming_car(plate) adds exactly that plate, lowers
\* available_spaces by one, and appends an 'entered' entry that reports
\* available_spaces as it is after the insertion.
C6_EnterFreshPlate ==
    (/\ Called("incoming_car")
     /\ last.plate # ""
     /\ last.plate \notin last.occupied
     /\ ~WasFull)
    => /\ occupied = last.occupied \cup {last.plate}
       /\ available_spaces(occupied) = available_spaces(last.occupied) - 1
       /\ LastEntry = LogEntry(last.now,
              <<"Car ", last.plate, " entered. Available spaces: ">>
              \o FormatInt(available_spaces(occupied)))

\* a second car entered a carpark of capacity two
C6_Witness ==
    /\ Called("incoming_car")
    /\ last.plate # ""
    /\ last.plate \notin last.occupied
    /\ last.occupied # {}
    /\ ~WasFull
    /\ available_spaces(occupied) = 0

\* C7 (as claimed): if the occupied set already contains plate,
\* incoming_car(plate) leaves the set and available_spaces unchanged but
\* still appends the 'entered' entry and signals an update.
C7_ParkedPlateReenters ==
    (Called("incoming_car") /\ last.plate \in last.occupied)
    => /\ occupied = last.occupied
       /\ available_spaces(occupied) = available_spaces(last.occupied)
       /\ LastEntry = LogEntry(last.now, EnteredMessage(last.plate, occupied))
       /\ update_calls = last.update_calls
              + (IF last.update_display # "None" THEN 1 ELSE 0)

\* C7 (amended): if the occupied set already contains plate and holds fewer
\* than capacity plates, incoming_car(plate) leaves the set and
\* available_spaces unchanged but still appends the 'entered' entry and
\* signals an update.
C7_ParkedPlateReentersBelowCapacity ==
    (Called("incoming_car") /\ last.plate \in last.occupied /\ ~WasFull)
    => /\ occupied = last.occupied
       /\ available_spaces(occupied) = available_spaces(last.occupied)
       /\ LastEntry = LogEntry(last.now, EnteredMessage(last.plate, occupied))
       /\ update_calls = last.update_calls
              + (IF last.update_display # "None" THEN 1 ELSE 0)

\* a parked plate entered again while a space was free, callback wired
C7_Witness ==
    /\ Called("incoming_car")
    /\ last.plate \in last.occupied
    /\ ~WasFull
    /\ last.update_display = "refresh"
    /\ update_calls = last.update_calls + 1

\* C8: with the occupied set at capacity, incoming_car(p) for any plate p
\* leaves the set, available_spaces (0) and the temperature unchanged, and
\* appends the 'attempted to enter but parking is full' entry.
C8_FullRejects ==
    (Called("incoming_car") /\ WasFull)
    => /\ StateUnchanged
       /\ available_spaces(occupied) = 0
       /\ LastEntry = LogEntry(last.now, FullMessage(last.plate))

\* a fresh plate was turned away from a full carpark
C8_Witness ==
    /\ Called("incoming_car")
    /\ WasFull
    /\ last.plate # ""
    /\ last.plate \notin last.occupied
    /\ LastEntry = LogEntry(last.now, FullMessage(last.plate))

\* C9: incoming_car("") and outgoing_car("") leave the occupied set,
\* available_spaces and the temperature unchanged, and the empty string is
\* never a member of the occupied set.
C9_EmptyPlateNoOp ==
    /\ "" \notin occupied
    /\ ((Called("incoming_car") \/ Called("outgoing_car")) /\ last.plate = "")
       => StateUnchanged

\* the empty plate was sent to a carpark that held a car and had a space
C9_Witness ==
    /\ Called("incoming_car")
    /\ last.plate = ""
    /\ last.occupied # {}
    /\ ~WasFull

\* C10: outgoing_car(plate) for a plate that is not parked leaves the
\* occupied set, available_spaces and the temperature unchanged and appends
\* the 'attempted to exit but was not found' entry; for a parked plate it
\* removes exactly that plate and raises available_spaces by one.
C10_Exit ==
    Called("outgoing_car") =>
        IF last.plate \in last.occupied
        THEN /\ occupied = last.occupied \ {last.plate}
             /\ available_spaces(occupied)
                    = available_spaces(last.occupied) + 1
        ELSE /\ StateUnchanged
             /\ LastEntry = LogEntry(last.now, NotFoundMessage(last.plate))

\* a parked car left, then tried to leave a second time
C10_Witness ==
    /\ calls >= 2
    /\ prev.op = "outgoing_car"
    /\ prev.plate \in prev.occupied
    /\ Called("outgoing_car")
    /\ last.plate = prev.plate
    /\ last.plate \notin last.occupied

\* C11: temperature_reading(t) sets the temperature to t for every value t,
\* negative ones included, and leaves the occupied set and available_spaces
\* unchanged.
C11_TemperatureSet ==
    Called("temperature_reading") =>
        /\ temperature = last.temp
        /\ occupied = last.occupied
        /\ available_spaces(occupied) = available_spaces(last.occupied)

\* a reading below freezing arrived while a car was parked
C11_Witness ==
    /\ Called("temperature_reading")
    /\ last.temp < 0
    /\ last.temperature # last.temp
    /\ last.occupied # {}
    /\ temperature = last.temp

\* C17 (as claimed): incoming_car appends the 'attempted to enter but
\* parking is full' entry only when the occupied set is at capacity.
C17_FullEntryOnlyWhenFull ==
    (/\ Called("incoming_car")
     /\ LastEntry = LogEntry(last.now, FullMessage(last.plate)))
    => WasFull

\* s is an initial segment of t
IsPrefix(s, t) == Len(s) <= Len(t) /\ SubSeq(t, 1, Len(s)) = s

\* C16: the activity log is append-only: every step, reset_parking
\* included, keeps the entries it held, in order, at the front of the log;
\* and a caller that mutates the list get_activity_log returned leaves the
\* log unchanged.
C16_AppendOnly ==
    [][/\ IsPrefix(activity_log, activity_log')
       /\ (returned'.mutated /\ ~returned.mutated)
              => activity_log' = activity_log]_all_vars

\* a caller emptied the list it was given, then the carpark was reset
C16_Witness ==
    /\ returned.held /\ returned.mutated
    /\ ReturnedItems = <<>>
    /\ Called("reset_parking")
    /\ Len(last.activity_log) >= 1
    /\ IsPrefix(last.activity_log, activity_log)
    /\ Len(activity_log) = Len(last.activity_log) + 1

\* event number e has left its handler
Completed(e) == e < Len(emitted) \/ dispatch = Idle

\* the listeners notified of event number e, in the order of notification
NotifiedFor(e) ==
    LET ForEvent(d) == d.id = e
        sel == SelectSeq(delivered, ForEvent)
    IN  [j \in 1..Len(sel) |-> sel[j].listener]

\* notifications of one event are never mixed with those of another
OneEventAtATime ==
    \A j \in 1..(Len(delivered) - 1) : delivered[j].id <= delivered[j + 1].id

\* C12 (as claimed): every emitted event, reset included, is delivered to
\* the registered listeners in registration order, once per registration,
\* and to all of them before the next event is dispatched.
C12_AllListenersInOrder ==
    /\ OneEventAtATime
    /\ \A e \in 1..Len(emitted) :
           Completed(e) => NotifiedFor(e) = emitted[e].registered

\* C12 (amended): every emitted car-in, car-out and temperature event is
\* delivered to the registered listeners in registration order, once per
\* registration, and to all of them before the next event is dispatched; a
\* reset event is delivered in the same way to the registered listeners
\* that have a reset_parking method, and skips the others.
C12_ListenersInOrderResetIfCapable ==
    /\ OneEventAtATime
    /\ \A e \in 1..Len(emitted) :
           Completed(e) =>
               NotifiedFor(e) =
                   IF emitted[e].event = "reset_parking"
                   THEN SelectSeq(emitted[e].registered, HasResetParking)
                   ELSE emitted[e].registered

\* the database was registered twice and has been notified twice of an
\* event, and a reset has passed over a listener without reset_parking
C12_Witness ==
    /\ dispatch = Idle
    /\ \E e \in 1..Len(emitted) :
           /\ emitted[e].event # "reset_parking"
           /\ emitted[e].registered = <<"database", "database">>
           /\ NotifiedFor(e) = <<"database", "database">>
    /\ calls >= 2

\* C13: while no data source is attached, also after an object that is no
\* data provider was assigned, neither the daemon thread's loop nor a direct
\* refresh() hands values to display.update or changes a label, and no
\* exception leaves refresh(); the daemon thread never enters refresh()
C13_NoSourceNoUpdate ==
    provider = "None" =>
        /\ last_update = NoUpdate
        /\ \A f \in DOMAIN shown : shown[f] = DISPLAY_INIT
        /\ ~escaped
        /\ hb.pc = "loop"

\* refresh() was called with no data source, and printed what it caught
C13_Witness ==
    /\ provider = "None"
    /\ printed = "AttributeError"
    /\ window_exists

\* C14: once the display window is closed no step changes a displayed
\* value, whether it belongs to the daemon thread's refresh or to one made
\* by trigger_update, and also when the window went between
\* display.update's winfo_exists() and its write; no exception leaves
\* refresh(), the daemon thread stays in its loop, and an incoming_car that
\* meets the entry condition still parks its plate
C14_ClosedSurfaceSilent ==
    [][/\ ~window_exists => shown' = shown
       /\ ~escaped'
       /\ hb'.pc # "dead"
       /\ (/\ ~window_exists
           /\ calls' = calls + 1
           /\ last'.op = "incoming_car"
           /\ CanEnter(last'.plate)) => last'.plate \in occupied'
      ]_all_vars

\* the window was closed while the daemon thread was inside display.update:
\* the write failed, refresh() printed the TclError, the thread loops on
C14_Witness ==
    /\ ~window_exists
    /\ printed = "TclError"
    /\ hb.pc = "loop"
    /\ last_update.by = "daemon"

\* C15 as stated: an update made with no change of occupied and temperature
\* since the reads of the update before it hands over the same
\* 'Available Bays', 'Temperature' and 'Time' as the update before it
C15_Idempotent ==
    [][last_update'.repeat =>
           /\ last_update'.bays = last_update.bays
           /\ last_update'.temperature = last_update.temperature
           /\ last_update'.time = last_update.time
      ]_all_vars

\* C15: such an update hands over the same 'Available Bays' and
\* 'Temperature' as the update before it, and the same 'Time' when both
\* read the clock within the same second
C15_IdempotentSameSecond ==
    [][last_update'.repeat =>
           /\ last_update'.bays = last_update.bays
           /\ last_update'.temperature = last_update.temperature
           /\ last_update'.clock = last_update.clock
                  => last_update'.time = last_update.time
      ]_all_vars

\* values were handed over twice with no change of occupied or temperature
\* in between, the second time after the clock had moved on
C15_Witness ==
    /\ last_update.repeat
    /\ last_update.clock > 86399
    /\ window_exists

\* what the display shows for the database state as it is now
ShowsCurrent ==
    /\ shown.bays = FormatBays(available_spaces(occupied))
    /\ shown.temperature = FormatTemperature(temperature)

\* C19: with _update_display wired to refresh and the window open, from the
\* return of a successful call on, the 'Available Bays' and 'Temperature'
\* labels show the state that call left, whatever the daemon thread's
\* refresh does with values it read before the call
C19_NeverStale ==
    (/\ ui = "idle"
     /\ window_exists
     /\ last.update_display = "refresh"
     /\ Succeeded) => ShowsCurrent

\* C20: the 'Available Bays' and 'Temperature' the daemon thread hands to
\* display.update are those of one state the database was in between two
\* calls, never occupancy and temperature taken from different sides of a
\* call or from the middle of reset_parking
C20_PairHeldTogether ==
    last_update.by = "daemon" =>
        \E pair \in held :
            /\ last_update.bays = FormatBays(pair[1])
            /\ last_update.temperature = FormatTemperature(pair[2])

\* C18: with the data source attached and the window open, _update_display
\* wired or not, once occupied and temperature stop changing the daemon
\* thread's refresh brings the 'Available Bays' and 'Temperature' labels to
\* the database's values, and they stay there
C18_HeartbeatCatchesUp ==
    (<>(provider # "None") /\ <>[][version' = version]_version)
        => <>[]ShowsCurrent

\* the database was changed with no callback wired, and the labels show
\* its state as the daemon thread read it after the change
C18_Witness ==
    /\ update_display = "None"
    /\ version > 0
    /\ window_exists
    /\ last_update.by = "daemon"
    /\ last_update.v_first = version
    /\ hb.pc = "loop"
    /\ ShowsCurrent


============================================================================
